---- MODULE Spec2Model ----
(***************************************************************************)
(* Model of src/integrity_checker.py: FileIntegrityChecker.                *)
(*                                                                         *)
(* The filesystem is a map from nodes (canonical paths, tuples of path     *)
(* components) to entries.  A path string given to the program is a tuple  *)
(* of components that may contain "." ; two different path strings may     *)
(* name the same node ("F" and "./F").  The working directory is the root  *)
(* node <<>>; it holds the configuration file, the baseline file, the       *)
(* report directory and one user directory D with a file D/x.              *)
(***************************************************************************)
EXTENDS Integers, Sequences, FiniteSets, TLC

VARIABLES fs, config, pc, clock, baseline, idx, report,
          nbase, nenv, lastOp, prevReport, outcome

vars == <<fs, config, pc, clock, baseline, idx, report,
          nbase, nenv, lastOp, prevReport, outcome>>

\* ---------------------------------------------------------------- bounds
MaxTime == 1
MaxContent == 2
MaxBaselines == 1
MaxMutations == 2

\* ------------------------------------------------------------ path names
ConfigFile == <<"integrity_config.json">>
BaselineFile == <<"baseline_hashes.json">>
DefaultReportDir == <<"reports">>
AlertAddress == "admin@example.com"
NoAddress == "None"

DNode == <<"D">>
XNode == <<"D", "x">>

ReportDirs == {DefaultReportDir}

ReportName(t) == "integrity_report_" \o ToString(t)

ReportNodes == {Append(d, ReportName(t)) : d \in ReportDirs, t \in 0..MaxTime}

UserFiles == {XNode}

Nodes == {ConfigFile, BaselineFile, DNode, XNode, DefaultReportDir} \cup ReportNodes

\* the order in which a directory walk lists the files it finds: the files of
\* a directory before the files of its subdirectories
WalkOrder ==
    <<ConfigFile, BaselineFile, XNode>>
    \o [i \in 1..(MaxTime + 1) |-> Append(DefaultReportDir, ReportName(i - 1))]

MonitorEntries == {<<".">>, DNode, XNode}

\* monitor_paths: no entry, one entry, or two entries that may repeat or overlap
MonitorPathSets ==
    {<<>>} \cup {<<a>> : a \in MonitorEntries}
           \cup {<<a, b>> : a \in MonitorEntries, b \in MonitorEntries}

\* -------------------------------------------------------- file contents
NoReport == [timestamp |-> 0, changes |-> <<>>, missing_files |-> <<>>,
             new_files |-> <<>>]
NoContent == [tag |-> "none", data |-> 0, base |-> <<>>, rep |-> NoReport]
DataContent(v) == [tag |-> "data", data |-> v, base |-> <<>>, rep |-> NoReport]
BaselineContent(b) == [tag |-> "baseline", data |-> 0, base |-> b, rep |-> NoReport]
ReportContent(r) == [tag |-> "report", data |-> 0, base |-> <<>>, rep |-> r]
\* the configuration document; it is written once, when the checker is built
ConfigContent == [tag |-> "config", data |-> 0, base |-> <<>>, rep |-> NoReport]

Absent == [kind |-> "absent", readable |-> FALSE, content |-> NoContent]
Dir == [kind |-> "dir", readable |-> TRUE, content |-> NoContent]
File(c) == [kind |-> "file", readable |-> TRUE, content |-> c]

\* --------------------------------------------------------------- os.path
Canon(p) == SelectSeq(p, LAMBDA c : c # ".")

KindIn(f, p) == IF Canon(p) = <<>> THEN "dir" ELSE f[Canon(p)].kind

Exists(p) == KindIn(fs, p) # "absent"
IsFile(p) == KindIn(fs, p) = "file"
IsDir(p) == KindIn(fs, p) = "dir"

IsUnder(n, d) == Len(n) > Len(d) /\ SubSeq(n, 1, Len(d)) = d

Join(root, n) == root \o SubSeq(n, Len(Canon(root)) + 1, Len(n))

\* os.walk(path): every file beneath path, named os.path.join(root, file)
Walk(p) ==
    LET found == SelectSeq(WalkOrder,
                           LAMBDA n : IsUnder(n, Canon(p)) /\ fs[n].kind = "file")
    IN  [i \in 1..Len(found) |-> Join(p, found[i])]

\* ------------------------------------------------------------------ hash
None == [ok |-> FALSE, of |-> NoContent]
Sha256(c) == [ok |-> TRUE, of |-> c]

calculate_hash(p) ==
    IF IsFile(p) /\ fs[Canon(p)].readable
    THEN Sha256(fs[Canon(p)].content)
    ELSE None

\* ------------------------------------------------------------ dictionary
\* a Python dict / JSON object: a sequence of <<key, value>> with unique keys
Keys(d) == {d[i][1] : i \in 1..Len(d)}

DictSet(d, k, v) ==
    IF k \in Keys(d)
    THEN [i \in 1..Len(d) |-> IF d[i][1] = k THEN <<k, v>> ELSE d[i]]
    ELSE Append(d, <<k, v>>)

\* -------------------------------------------------------- create_baseline
\* the files one monitor_paths entry stands for: a file as itself, a
\* directory as every file beneath it, anything else as nothing
EntryFiles(p) ==
    IF IsFile(p) THEN <<p>>
    ELSE IF IsDir(p) THEN Walk(p)
    ELSE <<>>

RECURSIVE HashAll(_, _)
HashAll(d, files) ==
    IF files = <<>> THEN d
    ELSE HashAll(DictSet(d, Head(files), calculate_hash(Head(files))), Tail(files))

RECURSIVE BuildBaseline(_, _)
BuildBaseline(d, paths) ==
    IF paths = <<>> THEN d
    ELSE BuildBaseline(HashAll(d, EntryFiles(Head(paths))), Tail(paths))

create_baseline ==
    /\ pc \in {"idle", "sleep"}
    /\ nbase < MaxBaselines
    /\ fs' = [fs EXCEPT ![BaselineFile] =
                 File(BaselineContent(BuildBaseline(<<>>, config.monitor_paths)))]
    /\ nbase' = nbase + 1
    /\ lastOp' = "baseline"
    /\ UNCHANGED <<config, pc, clock, baseline, idx, report, nenv, prevReport, outcome>>

\* --------------------------------------------------------- check_integrity
\* the locals of check_integrity (baseline, the loop position, report) before
\* it is called and after it has returned or was unwound
ReturnLocals == baseline' = <<>> /\ idx' = 1 /\ report' = NoReport

\* CheckBegin with a missing baseline file read as an empty baseline
CheckBeginNoGuard ==
    /\ pc = "begin"
    /\ baseline' = IF Exists(BaselineFile) THEN fs[BaselineFile].content.base ELSE <<>>
    /\ report' = [NoReport EXCEPT !.timestamp = clock]
    /\ idx' = 1
    /\ pc' = "loop"
    /\ outcome' = "none"
    /\ UNCHANGED <<fs, config, clock, nbase, nenv, lastOp, prevReport>>

\* lines 108-121: no baseline file, no check; else load it and start a report
CheckBegin ==
    /\ pc = "begin"
    /\ IF ~Exists(BaselineFile)
       THEN /\ pc' = "sleep"
            /\ outcome' = "skipped"
            /\ UNCHANGED <<baseline, idx, report>>
       ELSE /\ baseline' = fs[BaselineFile].content.base
            /\ report' = [NoReport EXCEPT !.timestamp = clock]
            /\ idx' = 1
            /\ pc' = "loop"
            /\ outcome' = "none"
    /\ UNCHANGED <<fs, config, clock, nbase, nenv, lastOp, prevReport>>

\* CheckEntryResult with the comparison of line 130 inverted
CheckEntryResultEqual(r, e) ==
    IF ~Exists(e[1])
    THEN [r EXCEPT !.missing_files = Append(@, e[1])]
    ELSE LET current_hash == calculate_hash(e[1])
         IN  IF current_hash = e[2]
             THEN [r EXCEPT !.changes =
                      Append(@, [file |-> e[1], expected_hash |-> e[2],
                                 current_hash |-> current_hash])]
             ELSE r

\* CheckEntryResult without the continue of line 127
CheckEntryResultNoContinue(r, e) ==
    LET r1 == IF ~Exists(e[1])
              THEN [r EXCEPT !.missing_files = Append(@, e[1])]
              ELSE r
        current_hash == calculate_hash(e[1])
    IN  IF current_hash # e[2]
        THEN [r1 EXCEPT !.changes =
                 Append(@, [file |-> e[1], expected_hash |-> e[2],
                            current_hash |-> current_hash])]
        ELSE r1

\* lines 125-135: one baseline entry e = <<file_path, expected_hash>>
CheckEntryResult(r, e) ==
    IF ~Exists(e[1])
    THEN [r EXCEPT !.missing_files = Append(@, e[1])]
    ELSE LET current_hash == calculate_hash(e[1])
         IN  IF current_hash # e[2]
             THEN [r EXCEPT !.changes =
                      Append(@, [file |-> e[1], expected_hash |-> e[2],
                                 current_hash |-> current_hash])]
             ELSE r

CheckEntry ==
    /\ pc = "loop"
    /\ idx <= Len(baseline)
    /\ report' = CheckEntryResult(report, baseline[idx])
    /\ idx' = idx + 1
    /\ UNCHANGED <<fs, config, pc, clock, baseline, nbase, nenv, lastOp, prevReport, outcome>>

\* lines 139-146: the files of one monitor_paths entry that the baseline lacks
NewFilesOf(p, b) ==
    IF IsFile(p) /\ p \notin Keys(b) THEN <<p>>
    ELSE IF IsDir(p) THEN SelectSeq(Walk(p), LAMBDA f : f \notin Keys(b))
    ELSE <<>>

RECURSIVE NewFiles(_, _)
NewFiles(paths, b) ==
    IF paths = <<>> THEN <<>>
    ELSE NewFilesOf(Head(paths), b) \o NewFiles(Tail(paths), b)

CheckNewFiles ==
    /\ pc = "loop"
    /\ idx > Len(baseline)
    /\ report' = [report EXCEPT !.new_files = NewFiles(config.monitor_paths, baseline)]
    /\ pc' = "report"
    /\ UNCHANGED <<fs, config, clock, baseline, idx, nbase, nenv, lastOp, prevReport, outcome>>

\* -------------------------------------------------------- generate_report
ReportFile(r) == Append(config.report_dir, ReportName(r.timestamp))

generate_report ==
    /\ pc = "report"
    /\ fs' = [fs EXCEPT ![config.report_dir] = Dir,
                        ![Append(config.report_dir, ReportName(clock))] =
                            File(ReportContent(report))]
    /\ pc' = "alert"
    /\ outcome' = "written"
    /\ lastOp' = "check"
    /\ prevReport' = report
    /\ UNCHANGED <<config, clock, baseline, idx, report, nbase, nenv>>

\* -------------------------------------------------------------- send_alert
\* AlertDue with new files counted as a reason to alert
AlertDueAnyFinding(r) ==
    r.changes # <<>> \/ r.missing_files # <<>> \/ r.new_files # <<>>

\* line 149
AlertDue(r) == r.changes # <<>> \/ r.missing_files # <<>>

\* send_alert without the try/except of lines 179-191: a transport failure
\* leaves monitor as an uncaught exception
send_alert_uncaught ==
    IF config.alert_email = NoAddress
    THEN outcome' = "alert_off" /\ pc' = "sleep"
    ELSE \E delivered \in BOOLEAN :
            /\ outcome' = IF delivered THEN "alert_sent" ELSE "alert_failed"
            /\ pc' = IF delivered THEN "sleep" ELSE "stopped"

\* lines 176-191: no address, no mail; a transport failure is printed
send_alert ==
    IF config.alert_email = NoAddress
    THEN outcome' = "alert_off" /\ pc' = "sleep"
    ELSE \E delivered \in BOOLEAN :
            /\ outcome' = IF delivered THEN "alert_sent" ELSE "alert_failed"
            /\ pc' = "sleep"

\* lines 149-150, and check_integrity returns: its locals are gone
Alert ==
    /\ pc = "alert"
    /\ IF AlertDue(report)
       THEN send_alert
       ELSE outcome' = "quiet" /\ pc' = "sleep"
    /\ ReturnLocals
    /\ UNCHANGED <<fs, config, clock, nbase, nenv, lastOp, prevReport>>

\* ------------------------------------------------------------------ monitor
StartMonitor ==
    /\ pc = "idle"
    /\ pc' = "begin"
    /\ UNCHANGED <<fs, config, clock, baseline, idx, report, nbase, nenv, lastOp,
                   prevReport, outcome>>

\* time.sleep(check_interval) returns: at least one second has passed
Sleep ==
    /\ pc = "sleep"
    /\ clock < MaxTime
    /\ clock' = clock + 1
    /\ pc' = "begin"
    /\ UNCHANGED <<fs, config, baseline, idx, report, nbase, nenv, lastOp, prevReport, outcome>>

\* KeyboardInterrupt: raised wherever the loop is; no handler below monitor's
\* catches it (calculate_hash and send_alert catch Exception only)
MonitorPcs == {"begin", "loop", "report", "alert", "sleep"}

Interrupt ==
    /\ pc \in MonitorPcs
    /\ pc' = "stopped"
    /\ ReturnLocals
    /\ UNCHANGED <<fs, config, clock, nbase, nenv, lastOp, prevReport, outcome>>

\* ------------------------------------------------------------- environment
\* what other programs do to the monitored files.  They act between checks
\* (before monitoring and during its sleep), so that every check_integrity
\* sees one filesystem state from its first line to its report; MaxMutations
\* bounds how often they act in one behaviour.
EnvReady == pc \in {"idle", "sleep"} /\ nenv < MaxMutations

EnvUnchanged ==
    /\ nenv' = nenv + 1
    /\ lastOp' = "env"
    /\ UNCHANGED <<config, pc, clock, baseline, idx, report, nbase, prevReport, outcome>>

WriteFile(n, v) ==
    /\ EnvReady
    /\ n = XNode => fs[DNode].kind = "dir"
    /\ fs[n].content # DataContent(v)
    /\ fs' = [fs EXCEPT ![n] = [kind |-> "file",
                                readable |-> IF @.kind = "file" THEN @.readable ELSE TRUE,
                                content |-> DataContent(v)]]
    /\ EnvUnchanged

DeleteFile(n) ==
    /\ EnvReady
    /\ fs[n].kind = "file"
    /\ fs' = [fs EXCEPT ![n] = Absent]
    /\ EnvUnchanged

Chmod(n) ==
    /\ EnvReady
    /\ fs[n].kind = "file"
    /\ fs' = [fs EXCEPT ![n].readable = ~@]
    /\ EnvUnchanged

RemoveDir ==
    /\ EnvReady
    /\ fs[DNode].kind = "dir"
    /\ fs' = [n \in Nodes |-> IF n = DNode \/ IsUnder(n, DNode) THEN Absent ELSE fs[n]]
    /\ EnvUnchanged

MakeDir ==
    /\ EnvReady
    /\ fs[DNode].kind = "absent"
    /\ fs' = [fs EXCEPT ![DNode] = Dir]
    /\ EnvUnchanged

\* ------------------------------------------------------------ specification
Configs == [monitor_paths : MonitorPathSets,
            alert_email : {NoAddress, AlertAddress},
            report_dir : ReportDirs]

Init ==
    /\ fs = [n \in Nodes |-> IF n = DNode THEN Dir
                             ELSE IF n \in UserFiles THEN File(DataContent(1))
                             ELSE IF n = ConfigFile THEN File(ConfigContent)
                             ELSE Absent]
    /\ config \in Configs
    /\ pc = "idle"
    /\ clock = 0
    /\ baseline = <<>>
    /\ idx = 1
    /\ report = NoReport
    /\ nbase = 0
    /\ nenv = 0
    /\ lastOp = "none"
    /\ prevReport = NoReport
    /\ outcome = "none"

Next ==
    \/ create_baseline
    \/ StartMonitor
    \/ CheckBegin
    \/ CheckEntry
    \/ CheckNewFiles
    \/ generate_report
    \/ Alert
    \/ Sleep
    \/ Interrupt
    \/ \E n \in UserFiles, v \in 1..MaxContent : WriteFile(n, v)
    \/ \E n \in UserFiles : DeleteFile(n)
    \/ \E n \in UserFiles : Chmod(n)
    \/ RemoveDir
    \/ MakeDir

Spec == Init /\ [][Next]_vars

\* ============================================================== properties
Count(seq, x) == Cardinality({i \in 1..Len(seq) : seq[i] = x})

ChangesOf(r, p) == {i \in 1..Len(r.changes) : r.changes[i].file = p}

InSeq(seq, x) == \E i \in 1..Len(seq) : seq[i] = x

\* the check has examined every baseline entry and every monitored path; the
\* report is complete and not yet written
ReportComplete == pc = "report"

EmptyFindings(r) ==
    r.changes = <<>> /\ r.missing_files = <<>> /\ r.new_files = <<>>

SameFindings(r1, r2) ==
    /\ r1.changes = r2.changes
    /\ r1.missing_files = r2.missing_files
    /\ r1.new_files = r2.new_files

\* C1: a check that runs right after create_baseline, with nothing done to the
\* filesystem in between, builds a report whose changes, missing_files and
\* new_files are all empty.
C1_RoundTrip ==
    (ReportComplete /\ lastOp = "baseline") => EmptyFindings(report)

\* C2: for every baseline entry whose path exists at check time, the report has
\* exactly one changes entry {file, expected_hash, current_hash} for it when
\* the recomputed hash differs from the expected one, and does not mention the
\* path at all when the two are equal.
C2_Detection ==
    ReportComplete =>
        \A i \in 1..Len(baseline) :
            LET p == baseline[i][1]
                expected == baseline[i][2]
                current == calculate_hash(p)
            IN  Exists(p) =>
                    IF current # expected
                    THEN /\ Cardinality(ChangesOf(report, p)) = 1
                         /\ \A j \in ChangesOf(report, p) :
                                report.changes[j] =
                                    [file |-> p, expected_hash |-> expected,
                                     current_hash |-> current]
                    ELSE /\ ChangesOf(report, p) = {}
                         /\ ~InSeq(report.missing_files, p)
                         /\ ~InSeq(report.new_files, p)

C2_Witness ==
    /\ ReportComplete
    /\ \E i \in 1..Len(baseline) :
           /\ Exists(baseline[i][1])
           /\ calculate_hash(baseline[i][1]) # baseline[i][2]
           /\ calculate_hash(baseline[i][1]).ok
           /\ baseline[i][2].ok
    /\ \E i \in 1..Len(baseline) :
           /\ Exists(baseline[i][1])
           /\ calculate_hash(baseline[i][1]) = baseline[i][2]

\* C3: every baseline path that does not exist at check time is listed exactly
\* once in missing_files and not in changes, and no path is in both changes
\* and missing_files of one report.
C3_Deletion ==
    ReportComplete =>
        /\ \A i \in 1..Len(baseline) :
               ~Exists(baseline[i][1]) =>
                   /\ Count(report.missing_files, baseline[i][1]) = 1
                   /\ ChangesOf(report, baseline[i][1]) = {}
        /\ \A j \in 1..Len(report.missing_files) :
               ChangesOf(report, report.missing_files[j]) = {}

C3_Witness ==
    /\ ReportComplete
    /\ \E i \in 1..Len(baseline) :
           ~Exists(baseline[i][1]) /\ baseline[i][2].ok
    /\ fs[DNode].kind = "absent"

\* the files the monitored path set stands for: a file entry as itself, a
\* directory entry as every file beneath it
MonitoredFiles ==
    UNION {IF IsFile(config.monitor_paths[i])
           THEN {config.monitor_paths[i]}
           ELSE IF IsDir(config.monitor_paths[i])
           THEN {Join(config.monitor_paths[i], n) :
                    n \in {m \in Nodes : /\ fs[m].kind = "file"
                                         /\ IsUnder(m, Canon(config.monitor_paths[i]))}}
           ELSE {} : i \in 1..Len(config.monitor_paths)}

\* C4: new_files lists, each exactly once, precisely the monitored files that
\* are not keys of the baseline, whatever the monitored path set.
C4_Addition ==
    ReportComplete =>
        /\ \A p \in MonitoredFiles \ Keys(baseline) : Count(report.new_files, p) = 1
        /\ \A j \in 1..Len(report.new_files) :
               report.new_files[j] \in MonitoredFiles \ Keys(baseline)

SendAlertInvoked == outcome \in {"alert_off", "alert_sent", "alert_failed"}

\* C5: send_alert is invoked in a check cycle only when that cycle's report has
\* a non-empty changes or a non-empty missing_files.
C5_AlertOnlyOnDrift ==
    SendAlertInvoked =>
        (prevReport.changes # <<>> \/ prevReport.missing_files # <<>>)

C5_Witness ==
    /\ outcome = "alert_sent"
    /\ prevReport.missing_files # <<>>
    /\ prevReport.new_files # <<>>

\* C6: when a notification is attempted the cycle's report is already in the
\* report directory; the attempt, failed or not, leaves the filesystem as it
\* is and the monitor loop goes on to its sleep.
C6_ReportBeforeAlert ==
    [][(pc = "alert" /\ outcome' \in {"alert_sent", "alert_failed"}) =>
           /\ fs[ReportFile(report)] = File(ReportContent(report))
           /\ fs' = fs
           /\ pc' = "sleep"]_vars

C6_Witness ==
    /\ outcome = "alert_failed"
    /\ pc = "begin"
    /\ fs[ReportFile(prevReport)] = File(ReportContent(prevReport))

\* C7: a check that starts while no baseline file exists changes nothing on
\* disk (no report, no baseline), attempts no notification and ends the
\* cycle; a check that starts while a baseline file exists is not skipped, and
\* a report is only ever written by a check that found a baseline file.
C7_MissingBaseline ==
    /\ [][(pc = "begin" /\ ~Exists(BaselineFile)) =>
              /\ fs' = fs
              /\ pc' \in {"sleep", "stopped"}
              /\ (pc' = "sleep" => outcome' = "skipped")
              /\ (pc' = "stopped" => outcome' = outcome)]_vars
    /\ [][(pc = "begin" /\ Exists(BaselineFile)) => pc' \in {"loop", "stopped"}]_vars
    /\ [](pc \in {"loop", "report", "alert"} => Exists(BaselineFile))

C7_Witness ==
    /\ outcome = "skipped"
    /\ pc = "sleep"
    /\ ~Exists(BaselineFile)
    /\ \A n \in ReportNodes : fs[n].kind = "absent"

\* C8: a check that follows a completed check, with nothing done to the
\* filesystem by anyone but the checker in between, builds a report with the
\* same changes, missing_files and new_files; and while a check runs the
\* persisted baseline is the one the check loaded.
C8_Idempotence ==
    /\ (ReportComplete /\ lastOp = "check") => SameFindings(report, prevReport)
    /\ pc \in {"loop", "report", "alert"} => fs[BaselineFile].content.base = baseline

\* C9: a baseline path that exists at check time and cannot be hashed has the
\* unknown sentinel as its current hash, the sentinel differs from the value
\* the baseline stores for the path, and the path is recorded under changes.
C9_UnreadableIsChange ==
    ReportComplete =>
        \A i \in 1..Len(baseline) :
            (Exists(baseline[i][1]) /\ calculate_hash(baseline[i][1]) = None) =>
                /\ baseline[i][2] # None
                /\ ChangesOf(report, baseline[i][1]) # {}

\* C10: monitoring stops only between checks: never while a check cycle that
\* has started is still examining the baseline, writing its report or alerting.
C10_StopBetweenChecks ==
    [][pc' = "stopped" => pc \in {"sleep", "begin"}]_vars

====
